---- MODULE Spec2Model ----
(***************************************************************************)
(* netdoc: the discovery run of the VMware vSphere discoverer              *)
(* (netdoc/discoverers/json_vmware_vsphere.py), the show-inventory         *)
(* ingestor (netdoc/ingestors/netmiko_cisco_ios_show_inventory.py) and the *)
(* replay script (scripts/log_ingest.py), over one log store.              *)
(***************************************************************************)
EXTENDS Integers, Sequences, FiniteSets, TLC

VARIABLES
    discovered,          \* Discoverable.discovered, by address
    device,              \* the Device of each Discoverable: serial, manufacturer, model
    logs,                \* the DiscoveryLog table; a row's id is its index
    aggregated_results,  \* what nrni.run returned to the latest discovery run
    pc,                  \* the replay script: "idle", "running", "done" or "raised"
    cfg,                 \* the script's settings FILTERS, LOGS, COMMAND, STOP_ON_ERROR, REINGEST
    selected,            \* the rows the script's queryset returned, as ids in iteration order
    pos,                 \* how many of them the for loop has taken
    printed,             \* what the script printed per log: "done" or "failed"
    before,              \* device and logs as they were when the running pass started
    rerun,               \* the running pass repeats the pass that just ended, same settings
    vsphere              \* the vCenter content api_query reads: hosts and distributed switches

vars == <<discovered, device, logs, aggregated_results,
          pc, cfg, selected, pos, printed, before, rerun, vsphere>>

-----------------------------------------------------------------------------
(* Bounds *)

MaxQueries == 2      \* queries in one host's pipeline
MaxLogs == 3         \* rows of the log table, discovery runs alone
MaxRows == 2         \* rows of the log table when the replay script runs too
MaxItems == 3        \* items of a parsed output given to the ingestor
MaxHosts == 2        \* hosts of a vCenter
MaxDvswitches == 2   \* distributed switches of a vCenter
MaxPortgroups == 2   \* port groups of one host, and of one distributed switch
MaxHardware == 2     \* hardware devices of a virtual machine

-----------------------------------------------------------------------------
(* Values *)

NoneVal == "None"

Addresses == {"10.0.0.1", "10.0.0.2"}

Commands == {"pyVmomi", "show inventory"}

MANUFACTURER == "Cisco"

DEFAULT_MODEL == "Cisco Unknown device"

\* One item of a parsed show-inventory output; item.get(k) is NoneVal when k is absent.
Item(name, sn, pid) == [name |-> name, sn |-> sn, pid |-> pid]

ChassisItem == Item("Chassis", "ABC123", "WS-C1")

SlotItem == Item("Slot 1", "XYZ789", "WS-X2")

NamelessItem == Item(NoneVal, "XYZ789", "WS-X2")

\* Items as the show-inventory template can give them: the name in another case and
\* with more text around it, and a value absent (NoneVal) or empty.
UpperChassisItem == Item("CHASSIS 2", "DEF456", "WS-C2")

ChassisNoPidItem == Item("Chassis", "ABC123", NoneVal)

ChassisEmptyPidItem == Item("Chassis", "ABC123", "")

ChassisNoSnItem == Item("Chassis", NoneVal, "WS-C1")

SlotNoPidItem == Item("Slot 1", "XYZ789", NoneVal)

SlotEmptySnItem == Item("Slot 1", "", "WS-X2")

EmptyNameItem == Item("", "XYZ789", "WS-X2")

Items ==
    {ChassisItem, UpperChassisItem, SlotItem, NamelessItem, ChassisNoPidItem,
     ChassisEmptyPidItem, ChassisNoSnItem, SlotNoPidItem, SlotEmptySnItem, EmptyNameItem}

\* Every parsed output of at most MaxItems items, the empty one included.
ParsedOutputs == UNION {[1..n -> Items] : n \in 0..MaxItems}

\* What api_query returns, kept whole: its hosts and dvswitches are not looked into here.
VsphereInventory == <<Item("hosts", NoneVal, NoneVal)>>

\* The structured outputs a query of each command can return.
OutputsOf(command) ==
    IF command = "show inventory"
    THEN {<<ChassisItem>>, <<SlotItem>>, <<NamelessItem>>}
    ELSE {VsphereInventory}

\* result.result: the query's return value, or the traceback text of a failed task.
Returned(data) == [traceback |-> FALSE, data |-> data]

Traceback == [traceback |-> TRUE, data |-> <<>>]

\* json.dumps / json.loads of a result payload.
JsonDumps(value) == [json |-> value]

JsonLoads(text) == text.json

-----------------------------------------------------------------------------
(* multiple_tasks: the details of a query, carried in the sub-task's name *)

Details(command, order) ==
    [command |-> command, template |-> command, order |-> order]

AllDetails == {Details(c, o) : c \in Commands, o \in 0..MaxQueries}

\* json.dumps(details): the text nornir keeps as the result's name.
DetailsDumps(details) ==
    "{\"command\": \"" \o details.command \o "\", \"template\": \""
        \o details.template \o "\", \"order\": " \o ToString(details.order) \o "}"

\* json.loads(result.name)
DetailsLoads(name) == CHOOSE d \in AllDetails : DetailsDumps(d) = name

Result(name, host, failed, result) ==
    [name |-> name, host |-> host, failed |-> failed, result |-> result]

\* The outcomes of one query: it fails, or it returns one of its outputs.
SubResults(host, command, order) ==
    {Result(DetailsDumps(Details(command, order)), host, TRUE, Traceback)}
    \cup {Result(DetailsDumps(Details(command, order)), host, FALSE, Returned(d)) :
            d \in OutputsOf(command)}

\* The results of the queries of one host, in the order of the pipeline.
RECURSIVE Pipelines(_, _)
Pipelines(host, n) ==
    IF n = 0 THEN {<<>>}
    ELSE {Append(p, r) : p \in Pipelines(host, n - 1),
                         r \in UNION {SubResults(host, c, n - 1) : c \in Commands}}

\* nornir's MultiResult of a host: the wrapper task's result first, then the sub-tasks'.
multiple_tasks(host, subs) ==
    <<Result("multiple_tasks", host,
             \E i \in 1..Len(subs) : subs[i].failed, Returned(<<>>))>> \o subs

\* The hosts of a run, in the order the aggregated result holds them.
HostOrders ==
    {<<h>> : h \in Addresses}
    \cup UNION {{<<h, g>> : g \in Addresses \ {h}} : h \in Addresses}

Min(a, b) == IF a < b THEN a ELSE b

\* Every AggregatedResult over the hosts hs, a (key, multi_result) per host, whose
\* queries number at most room.
RECURSIVE Runs(_, _)
Runs(hs, room) ==
    IF hs = <<>> THEN {<<>>}
    ELSE UNION {
        {<<[key |-> Head(hs), multi_result |-> multiple_tasks(Head(hs), subs)]>> \o rest :
            rest \in Runs(Tail(hs), room - Len(subs))} :
        subs \in UNION {Pipelines(Head(hs), n) : n \in 1..Min(MaxQueries, room)}}

AggregatedResults(room) == UNION {Runs(hs, room) : hs \in HostOrders}

-----------------------------------------------------------------------------
(* api_query: the vCenter content, as pyVmomi objects *)

\* A managed object is a record of the attributes it has: hasattr(o, a) is
\* a \in DOMAIN o.
hasattr(object, attribute) == attribute \in DOMAIN object

\* host.config.network.portgroup: the port groups of a host's own vswitches.
HostPortgroups ==
    {[key |-> "key-vim.host.PortGroup-VM Network", name |-> "VM Network",
      vswitch |-> "key-vim.host.VirtualSwitch-vSwitch0", vswitchName |-> "vSwitch0",
      vlanId |-> 0],
     [key |-> "key-vim.host.PortGroup-Management", name |-> "Management",
      vswitch |-> "key-vim.host.VirtualSwitch-vSwitch0", vswitchName |-> "vSwitch0",
      vlanId |-> 100]}

\* dvswitch.portgroup: distributed port groups. The VLAN of one is in its config; the
\* last one also has an attribute vlanId, which the query tests for.
DvPortgroups ==
    {[id |-> "dvportgroup-1", name |-> "dv-prod", config_vlanId |-> 10],
     [id |-> "dvportgroup-2", name |-> "dv-test", config_vlanId |-> 20],
     [id |-> "dvportgroup-3", name |-> "dv-lab", config_vlanId |-> 30, vlanId |-> 30]}

\* vm.config.hardware.device: a disk has no macAddress; a network adapter is backed
\* by a distributed port (with or without a port key), by a network of a vswitch,
\* or by an opaque network, which has neither port nor network.
Hardware ==
    {[label |-> "Hard disk 1"],
     [macAddress |-> "00:50:56:00:00:01", label |-> "Network adapter 1", connected |-> TRUE,
      backing |-> [port |-> [portgroupKey |-> "dvportgroup-1", portKey |-> "7"]]],
     [macAddress |-> "00:50:56:00:00:02", label |-> "Network adapter 2", connected |-> TRUE,
      backing |-> [port |-> [portgroupKey |-> "dvportgroup-2", portKey |-> NoneVal]]],
     [macAddress |-> "00:50:56:00:00:03", label |-> "Network adapter 3", connected |-> TRUE,
      backing |-> [network |-> "network-11", deviceName |-> "VM Network"]],
     [macAddress |-> "00:50:56:00:00:04", label |-> "Network adapter 4", connected |-> FALSE,
      backing |-> [opaqueNetworkId |-> "nsx-1"]]}

\* The sequences of at most n elements of a set, none of them twice.
SeqsUpTo(set, n) ==
    UNION {{q \in [1..k -> set] : \A i, j \in 1..k : i # j => q[i] # q[j]} : k \in 0..n}

\* host.vm: no virtual machine, or one with some hardware.
VmLists ==
    {<<>>} \cup {<<[id |-> "vim.VirtualMachine:vm-1", name |-> "vm-1", hardware |-> hw]>> :
                    hw \in SeqsUpTo(Hardware, MaxHardware) \ {<<>>}}

HostSystem(n, portgroup, vm) ==
    [id |-> "vim.HostSystem:host-" \o ToString(n), name |-> "esx-" \o ToString(n),
     portgroup |-> portgroup, vm |-> vm]

\* The hosts of a vCenter: none, one with port groups and virtual machines, or
\* several with port groups.
HostLists ==
    {<<>>}
    \cup {<<HostSystem(1, pgs, vms)>> :
            pgs \in SeqsUpTo(HostPortgroups, MaxPortgroups), vms \in VmLists}
    \cup {[n \in 1..MaxHosts |-> HostSystem(n, pgss[n], <<>>)] :
            pgss \in [1..MaxHosts -> SeqsUpTo(HostPortgroups, MaxPortgroups)]}

\* The port groups of k distributed switches: a distributed port group is of one switch.
DvPortgroupLists(k) ==
    {pgss \in [1..k -> SeqsUpTo(DvPortgroups, MaxPortgroups)] :
        \A m, n \in 1..k : m # n =>
            \A i \in 1..Len(pgss[m]) : \A j \in 1..Len(pgss[n]) : pgss[m][i] # pgss[n][j]}

\* The distributed switches of a vCenter.
DvswitchLists ==
    UNION {{[n \in 1..k |->
                [id |-> "vim.dvs.VmwareDistributedVirtualSwitch:dvs-" \o ToString(n),
                 name |-> "dvs-" \o ToString(n), portgroup |-> pgss[n]]] :
             pgss \in DvPortgroupLists(k)} :
           k \in 0..MaxDvswitches}

Vspheres == [hosts : HostLists, dvswitches : DvswitchLists]

EmptyVsphere == [hosts |-> <<>>, dvswitches |-> <<>>]

-----------------------------------------------------------------------------
(* api_query: what it returns *)

\* str(bool)
StrBool(b) == IF b THEN "True" ELSE "False"

\* A dict built by assignments d[key] = value in the order of entries: the last
\* assignment to a key is the one that stays.
Dict(entries) ==
    [k \in {entries[i].key : i \in 1..Len(entries)} |->
        entries[CHOOSE i \in 1..Len(entries) :
                    /\ entries[i].key = k
                    /\ \A j \in (i + 1)..Len(entries) : entries[j].key # k].value]

\* try: hardware.macAddress / except AttributeError: continue
IsNetworkAdapter(hardware) == hasattr(hardware, "macAddress")

\* Faulty variant: the vswitch branch gives the port too.
nic_data_with_port(hardware) ==
    [mac_address |-> hardware.macAddress, label |-> hardware.label,
     connected |-> StrBool(hardware.connected),
     switch_type |-> IF hasattr(hardware.backing, "port") THEN "dvswitch" ELSE "vswitch",
     portgroup_id |-> IF hasattr(hardware.backing, "port")
                      THEN hardware.backing.port.portgroupKey
                      ELSE hardware.backing.network,
     portgroup_name |-> IF hasattr(hardware.backing, "port") THEN NoneVal
                        ELSE hardware.backing.deviceName,
     port |-> IF hasattr(hardware.backing, "port") THEN hardware.backing.port.portKey
              ELSE "0"]

\* nic_data of a network adapter: the dvSwitch branch when the backing has a port,
\* the vSwitch branch otherwise.
nic_data(hardware) ==
    IF hasattr(hardware.backing, "port")
    THEN [mac_address |-> hardware.macAddress, label |-> hardware.label,
          connected |-> StrBool(hardware.connected),
          switch_type |-> "dvswitch",
          portgroup_id |-> hardware.backing.port.portgroupKey,
          portgroup_name |-> NoneVal,
          port |-> hardware.backing.port.portKey]
    ELSE [mac_address |-> hardware.macAddress, label |-> hardware.label,
          connected |-> StrBool(hardware.connected),
          switch_type |-> "vswitch",
          portgroup_id |-> hardware.backing.network,
          portgroup_name |-> hardware.backing.deviceName,
          port |-> NoneVal]

\* The vSwitch branch reads backing.network and backing.deviceName: a backing with
\* neither port nor these raises AttributeError.
NicRaises(hardware) ==
    /\ IsNetworkAdapter(hardware)
    /\ ~hasattr(hardware.backing, "port")
    /\ ~(hasattr(hardware.backing, "network") /\ hasattr(hardware.backing, "deviceName"))

vm_data(vm) ==
    LET adapters == SelectSeq(vm.hardware, IsNetworkAdapter)
    IN  [id |-> vm.id, name |-> vm.name,
         nics |-> [i \in 1..Len(adapters) |-> nic_data(adapters[i])]]

\* portgroup_data of a port group of a host's vswitch.
portgroup_data(portgroup) ==
    [id |-> portgroup.key, name |-> portgroup.name,
     vswitch_id |-> portgroup.vswitch, vswitch_name |-> portgroup.vswitchName,
     vswitch_type |-> "vswitch", vlan |-> portgroup.vlanId]

\* porgroup_data of a distributed port group: built, and not read again.
porgroup_data(portgroup) ==
    [id |-> portgroup.id, name |-> portgroup.name, vlan |-> NoneVal]

\* Every port group the loops visit, in the order visited.
RECURSIVE Visited(_)
Visited(owners) ==
    IF owners = <<>> THEN <<>> ELSE Head(owners).portgroup \o Visited(Tail(owners))

\* The local variable portgroup_data when the loop over the hosts is over: not bound
\* when no host had a port group, else the dict made for the last one visited.
BoundPortgroupData(vs) ==
    LET visited == Visited(vs.hosts)
    IN  IF visited = <<>> THEN [bound |-> FALSE]
        ELSE [bound |-> TRUE, value |-> portgroup_data(visited[Len(visited)])]

\* The loop over the distributed switches reads portgroup_data for every distributed
\* port group: UnboundLocalError when it is not bound.
DvswitchLoopRaises(vs) == Visited(vs.dvswitches) # <<>> /\ ~BoundPortgroupData(vs).bound

\* That dict when the query returns: portgroup_data["vlan"] is assigned for every
\* distributed port group that has an attribute vlanId, the last one stays.
ReturnedPortgroupData(vs) ==
    LET tagged == SelectSeq(Visited(vs.dvswitches), LAMBDA pg : hasattr(pg, "vlanId"))
        value == BoundPortgroupData(vs).value
    IN  IF tagged = <<>> THEN value
        ELSE [value EXCEPT !.vlan = tagged[Len(tagged)].config_vlanId]

\* The host whose portgroups dict holds that same dict: the last with a port group.
OwnerOfBound(vs) ==
    CHOOSE n \in 1..Len(vs.hosts) :
        /\ vs.hosts[n].portgroup # <<>>
        /\ \A m \in (n + 1)..Len(vs.hosts) : vs.hosts[m].portgroup = <<>>

\* host_data as it is in the returned data; the entry that is the dict the variable
\* is bound to shows what the loop over the distributed switches assigned to it.
host_data(vs, n) ==
    LET host == vs.hosts[n]
        portgroups == Dict([i \in 1..Len(host.portgroup) |->
                              [key |-> host.portgroup[i].key,
                               value |-> portgroup_data(host.portgroup[i])]])
    IN  [id |-> host.id, name |-> host.name,
         portgroups |-> IF host.portgroup # <<>> /\ n = OwnerOfBound(vs)
                        THEN [k \in DOMAIN portgroups |->
                                IF k = ReturnedPortgroupData(vs).id
                                THEN ReturnedPortgroupData(vs) ELSE portgroups[k]]
                        ELSE portgroups,
         vms |-> Dict([i \in 1..Len(host.vm) |->
                         [key |-> host.vm[i].id, value |-> vm_data(host.vm[i])]])]

\* dvswitch_data: every distributed port group stores portgroup_data under
\* portgroup_data.get("id").
dvswitch_data(vs, dvswitch) ==
    [id |-> dvswitch.id, name |-> dvswitch.name,
     portgroups |-> Dict([i \in 1..Len(dvswitch.portgroup) |->
                            [key |-> ReturnedPortgroupData(vs).id,
                             value |-> ReturnedPortgroupData(vs)]])]

\* api_query: the data it returns, or the exception it raises.
api_query(vs) ==
    IF \/ \E n \in 1..Len(vs.hosts) : \E v \in 1..Len(vs.hosts[n].vm) :
            \E h \in 1..Len(vs.hosts[n].vm[v].hardware) :
                NicRaises(vs.hosts[n].vm[v].hardware[h])
       \/ DvswitchLoopRaises(vs)
    THEN [raised |-> TRUE]
    ELSE [raised |-> FALSE,
          data |-> [hosts |-> Dict([n \in 1..Len(vs.hosts) |->
                                      [key |-> vs.hosts[n].id, value |-> host_data(vs, n)]]),
                    dvswitches |-> Dict([n \in 1..Len(vs.dvswitches) |->
                                      [key |-> vs.dvswitches[n].id,
                                       value |-> dvswitch_data(vs, vs.dvswitches[n])]])]]

\* nrni.run(task=multiple_tasks) on one host: the wrapper's result and the query's.
nrni_run(address, vs) ==
    LET returned == api_query(vs)
    IN  <<[key |-> address,
           multi_result |-> multiple_tasks(address,
               <<Result(DetailsDumps(Details("pyVmomi", 0)), address, returned.raised,
                        IF returned.raised THEN Traceback ELSE Returned(returned.data))>>)]>>

-----------------------------------------------------------------------------
(* discovery: from the aggregated results to the log table and the hosts' status *)

EmptyDevice == [serial |-> NoneVal, manufacturer |-> NoneVal, model |-> NoneVal]

\* discoverylog.create: a new row of the table, neither parsed nor ingested.
discoverylog_create(id, command, discoverable, raw_output, template, order) ==
    [id |-> id, discoverable |-> discoverable, command |-> command,
     template |-> template, order |-> order, raw_output |-> raw_output,
     parsed |-> FALSE, ingested |-> FALSE, parsed_output |-> <<>>]

\* Every Result of the run, in the order the two for loops visit them.
RECURSIVE ResultsOf(_)
ResultsOf(ar) ==
    IF ar = <<>> THEN <<>> ELSE Head(ar).multi_result \o ResultsOf(Tail(ar))

\* Faulty variant: a failed result is skipped like the wrapper's.
SkipFailedToo(result) == result.name = "multiple_tasks" \/ result.failed

\* if result.name == "multiple_tasks": continue
SkipResult(result) == result.name = "multiple_tasks"

Logged(result) == ~SkipResult(result)

LoggedResults(ar) == SelectSeq(ResultsOf(ar), Logged)

\* The row the loop body creates for a result.
LogOf(id, result) ==
    LET address == result.host
        details == DetailsLoads(result.name)
    IN  discoverylog_create(id, details.command, address,
                            JsonDumps(result.result), details.template, details.order)

host_list(ar) ==
    {LoggedResults(ar)[i].host : i \in 1..Len(LoggedResults(ar))}

\* Faulty variant: every host is tracked as failed.
TracksAll(result) == TRUE

\* if result.failed and discoverable_o.address not in failed_host_list
TracksFailed(result) == result.failed

\* Faulty variant: one failed result fails every host of the run.
failed_run(ar) ==
    IF \E i \in 1..Len(LoggedResults(ar)) : LoggedResults(ar)[i].failed
    THEN host_list(ar) ELSE {}

failed_host_list(ar) ==
    {LoggedResults(ar)[i].host :
        i \in {j \in 1..Len(LoggedResults(ar)) : TracksFailed(LoggedResults(ar)[j])}}

\* Faulty variant: the failed hosts are marked too.
MarkedAll(ar) == host_list(ar)

\* for address in host_list: if address not in failed_host_list
MarkedDiscovered(ar) == {address \in host_list(ar) : address \notin failed_host_list(ar)}

\* discoverable.get(address, discovered=True); discoverable.update(discoverable_o)
discoverable_update(status, addresses) ==
    [a \in Addresses |-> IF a \in addresses THEN TRUE ELSE status[a]]

-----------------------------------------------------------------------------
(* The parse stage *)

\* log.parse(): the template applied to the raw output; a traceback does not parse.
ParseOf(log) ==
    LET value == JsonLoads(log.raw_output)
    IN  IF value.traceback THEN [raised |-> TRUE, log |-> log]
        ELSE [raised |-> FALSE,
              log |-> [log EXCEPT !.parsed = TRUE, !.parsed_output = value.data]]

-----------------------------------------------------------------------------
(* The show-inventory ingestor *)

\* Faulty variant: the name is compared in the case it has.
KeepsCase(text) == text

\* str.lower() on the names the outputs carry.
Lower(text) ==
    CASE text = "Chassis" -> "chassis"
      [] text = "CHASSIS 2" -> "chassis 2"
      [] text = "Slot 1" -> "slot 1"
      [] OTHER -> text

\* "chassis" in text
ContainsChassis(text) == text \in {"chassis", "chassis 2"}

\* Python truth of item.get(key): an absent or empty value is false.
Truthy(value) == value \notin {NoneVal, ""}

\* The for loop: the first item whose name holds "chassis" gives serial and part
\* number; an item without a name raises (None has no lower()).
RECURSIVE ScanItems(_, _)
ScanItems(parsed_output, k) ==
    IF k > Len(parsed_output)
    THEN [raised |-> FALSE, chassis |-> FALSE,
          part_serial_number |-> NoneVal, part_number |-> DEFAULT_MODEL]
    ELSE LET item == parsed_output[k]
             part_description == item.name
         IN  IF part_description = NoneVal
             THEN [raised |-> TRUE, chassis |-> FALSE,
                   part_serial_number |-> NoneVal, part_number |-> DEFAULT_MODEL]
             ELSE IF ContainsChassis(Lower(part_description))
             THEN [raised |-> FALSE, chassis |-> TRUE,
                   part_serial_number |-> item.sn, part_number |-> item.pid]
             ELSE ScanItems(parsed_output, k + 1)

\* Faulty variant: the first item is used whatever it lacks.
FirstEntryUnchecked(parsed_output, scan) ==
    IF scan.chassis THEN scan
    ELSE IF parsed_output = <<>>
    THEN [scan EXCEPT !.raised = TRUE]
    ELSE [scan EXCEPT !.part_serial_number = parsed_output[1].sn,
                      !.part_number = parsed_output[1].pid]

\* Faulty variant: an empty output is read as one that gives nothing.
FirstEntryOrNothing(parsed_output, scan) ==
    IF scan.chassis \/ parsed_output = <<>> THEN scan
    ELSE LET item == parsed_output[1]
         IN  IF Truthy(item.name) /\ Truthy(item.sn) /\ Truthy(item.pid)
             THEN [scan EXCEPT !.part_serial_number = item.sn, !.part_number = item.pid]
             ELSE scan

\* "if part_number is DEFAULT_MODEL": the name still refers to the constant, which it
\* does exactly when the loop assigned nothing. Then the first item is read, and an
\* empty output raises (no item 0).
FirstEntry(parsed_output, scan) ==
    IF scan.chassis THEN scan
    ELSE IF parsed_output = <<>>
    THEN [scan EXCEPT !.raised = TRUE]
    ELSE LET item == parsed_output[1]
         IN  IF Truthy(item.name) /\ Truthy(item.sn) /\ Truthy(item.pid)
             THEN [scan EXCEPT !.part_serial_number = item.sn, !.part_number = item.pid]
             ELSE scan

\* device.update: a field is set when the call gives it a value.
device_update(device_o, serial, manufacturer, model_keyword) ==
    [serial |-> IF serial = NoneVal THEN device_o.serial ELSE serial,
     manufacturer |-> IF manufacturer = NoneVal THEN device_o.manufacturer ELSE manufacturer,
     model |-> IF model_keyword = NoneVal THEN device_o.model ELSE model_keyword]

\* Faulty variant: the log is saved as ingested before the output is read.
ingest_saves_first(log, device_o) ==
    LET scan == ScanItems(log.parsed_output, 1)
        parts == IF scan.raised THEN scan ELSE FirstEntry(log.parsed_output, scan)
    IN  [raised |-> parts.raised,
         log |-> [log EXCEPT !.ingested = TRUE],
         device |-> IF parts.raised THEN device_o
                    ELSE device_update(device_o, parts.part_serial_number,
                                       MANUFACTURER, parts.part_number)]

\* ingest(log): what it leaves of the log and of the Device of the log's discoverable.
ingest(log, device_o) ==
    LET scan == ScanItems(log.parsed_output, 1)
        parts == IF scan.raised THEN scan ELSE FirstEntry(log.parsed_output, scan)
    IN  IF parts.raised
        THEN [raised |-> TRUE, log |-> log, device |-> device_o]
        ELSE [raised |-> FALSE,
              log |-> [log EXCEPT !.ingested = TRUE],
              device |-> device_update(device_o, parts.part_serial_number,
                                       MANUFACTURER, parts.part_number)]

\* The ingestor of the vSphere inventory: it writes none of the three Device fields.
vsphere_ingest(log, device_o) ==
    [raised |-> FALSE, log |-> [log EXCEPT !.ingested = TRUE], device |-> device_o]

\* netdoc.utils.log_ingest: the ingestor registered for the log's command.
log_ingest(log, device_o) ==
    IF log.command = "show inventory" THEN ingest(log, device_o)
    ELSE vsphere_ingest(log, device_o)

-----------------------------------------------------------------------------
(* The replay script *)

\* The settings as the script is written.
ScriptCfg ==
    [FILTERS |-> {}, LOGS |-> {2296}, COMMAND |-> "",
     STOP_ON_ERROR |-> TRUE, REINGEST |-> FALSE]

\* The settings an operator gives the script.
Cfgs ==
    [FILTERS : {{}, {"10.0.0.1"}},
     LOGS : {{}, {1, 2296}},
     COMMAND : {"", "show inventory"},
     STOP_ON_ERROR : BOOLEAN,
     REINGEST : BOOLEAN]

\* Faulty variant: the table is not filtered on parsed.
KeepUnparsed(rows) == rows

\* DiscoveryLog.objects.filter(parsed=True)
FilterParsed(rows) == {log \in rows : log.parsed}

\* Faulty variant: the address filter is applied when FILTERS is empty too.
FilterAddressAlways(rows, c) == {log \in rows : log.discoverable \in c.FILTERS}

\* if FILTERS: logs.filter(discoverable__address__in=FILTERS)
FilterAddress(rows, c) ==
    IF c.FILTERS # {} THEN {log \in rows : log.discoverable \in c.FILTERS} ELSE rows

\* Faulty variant: the ingested logs are kept whatever REINGEST is.
KeepIngested(rows, c) == rows

\* if not REINGEST: logs.filter(ingested=False)
FilterIngested(rows, c) ==
    IF ~c.REINGEST THEN {log \in rows : ~log.ingested} ELSE rows

\* if LOGS: logs.filter(id__in=LOGS)
FilterIds(rows, c) ==
    IF c.LOGS # {} THEN {log \in rows : log.id \in c.LOGS} ELSE rows

\* if COMMAND: logs.filter(command=COMMAND)
FilterCommand(rows, c) ==
    IF c.COMMAND # "" THEN {log \in rows : log.command = c.COMMAND} ELSE rows

Rows(table) == {table[i] : i \in 1..Len(table)}

\* The rows of the queryset.
QuerySet(table, c) ==
    FilterCommand(FilterIds(FilterIngested(FilterAddress(FilterParsed(Rows(table)), c), c), c), c)

\* Faulty variant: the rows come unsorted.
Unordered(rows) ==
    {s \in [1..Cardinality(rows) -> rows] :
        \A i, j \in 1..Cardinality(rows) : i # j => s[i] # s[j]}

\* order_by("order"): the rows by ascending order; rows of equal order come in any
\* order, the field does not tell them apart.
Ordered(rows) ==
    {s \in [1..Cardinality(rows) -> rows] :
        /\ \A i, j \in 1..Cardinality(rows) : i # j => s[i] # s[j]
        /\ \A i, j \in 1..Cardinality(rows) : i < j => s[i].order <= s[j].order}

\* Faulty variant: the exception is swallowed whatever STOP_ON_ERROR is.
StopsNever(c) == FALSE

\* if STOP_ON_ERROR: raise
StopsOnError(c) == c.STOP_ON_ERROR

\* The body of the for loop on one log: what it leaves of the log's row, of the Device
\* and of the script. A turn that fails saves nothing after the ingestor raised.
LoopBody(log, device_o, c) ==
    LET done == log_ingest(log, device_o)
    IN  IF done.raised
        THEN [printed |-> "failed", log |-> done.log, device |-> done.device,
              raise |-> StopsOnError(c)]
        ELSE [printed |-> "done", log |-> [done.log EXCEPT !.ingested = TRUE],
              device |-> done.device, raise |-> FALSE]

-----------------------------------------------------------------------------
(* The state machine *)

script == <<pc, cfg, selected, pos, printed, before, rerun>>

NoDevices == [a \in Addresses |-> EmptyDevice]

Init ==
    /\ discovered = [a \in Addresses |-> FALSE]
    /\ device = NoDevices
    /\ logs = <<>>
    /\ aggregated_results = <<>>
    /\ pc = "idle"
    /\ cfg = ScriptCfg
    /\ selected = <<>>
    /\ pos = 0
    /\ printed = <<>>
    /\ before = [device |-> NoDevices, logs |-> <<>>]
    /\ rerun = FALSE
    /\ vsphere = EmptyVsphere

\* A script that has ended is gone once the table changes under another process; a
\* running one keeps its variables.
ScriptLeft ==
    IF pc \in {"done", "raised"}
    THEN /\ pc' = "idle"
         /\ cfg' = ScriptCfg
         /\ selected' = <<>>
         /\ pos' = 0
         /\ printed' = <<>>
         /\ before' = [device |-> NoDevices, logs |-> <<>>]
         /\ rerun' = FALSE
    ELSE UNCHANGED script

\* Faulty variant: a run replaces the rows its hosts had, the latest output wins.
discovery_overwrites(ar) ==
    LET results == LoggedResults(ar)
        kept == SelectSeq(logs, LAMBDA row : row.discoverable \notin host_list(ar))
    IN  /\ aggregated_results' = ar
        /\ logs' = kept \o [i \in 1..Len(results) |-> LogOf(Len(kept) + i, results[i])]
        /\ discovered' = discoverable_update(discovered, MarkedDiscovered(ar))
        /\ UNCHANGED <<device, vsphere>>
        /\ ScriptLeft

\* discovery(nrni), with the aggregated results nrni.run returns.
discovery(ar) ==
    LET results == LoggedResults(ar)
    IN  /\ aggregated_results' = ar
        /\ logs' = logs \o [i \in 1..Len(results) |-> LogOf(Len(logs) + i, results[i])]
        /\ discovered' = discoverable_update(discovered, MarkedDiscovered(ar))
        /\ UNCHANGED <<device, vsphere>>
        /\ ScriptLeft

\* The parse stage on the log of id i.
Parse(i) ==
    /\ ~logs[i].parsed
    /\ ~ParseOf(logs[i]).raised
    /\ logs' = [logs EXCEPT ![i] = ParseOf(logs[i]).log]
    /\ UNCHANGED <<discovered, device, aggregated_results, vsphere>>
    /\ ScriptLeft

\* The script up to its for loop: the queryset is built and evaluated.
ReplayStart(c, rows) ==
    /\ pc # "running"
    /\ rows \in Ordered(QuerySet(logs, c))
    /\ cfg' = c
    /\ selected' = rows
    /\ pos' = 0
    /\ printed' = <<>>
    /\ before' = [device |-> device, logs |-> logs]
    /\ rerun' = (pc \in {"done", "raised"} /\ c = cfg)
    /\ pc' = IF rows = <<>> THEN "done" ELSE "running"
    /\ UNCHANGED <<discovered, device, logs, aggregated_results, vsphere>>

\* One turn of the for loop.
ReplayStep ==
    /\ pc = "running"
    /\ LET log == selected[pos + 1]
           body == LoopBody(log, device[log.discoverable], cfg)
       IN  /\ printed' = Append(printed, body.printed)
           /\ pos' = pos + 1
           /\ device' = [device EXCEPT ![log.discoverable] = body.device]
           /\ logs' = [logs EXCEPT ![log.id] = body.log]
           /\ pc' = IF body.raise THEN "raised"
                    ELSE IF pos + 1 = Len(selected) THEN "done"
                    ELSE "running"
    /\ UNCHANGED <<discovered, aggregated_results, cfg, selected, before, rerun, vsphere>>

\* ingest(log) called on the log of id i, outside the script.
Ingest(i) ==
    /\ pc = "idle"
    /\ logs[i].parsed /\ logs[i].command = "show inventory"
    /\ LET log == logs[i]
           done == ingest(log, device[log.discoverable])
       IN  /\ before' = [device |-> device, logs |-> logs]
           /\ device' = [device EXCEPT ![log.discoverable] = done.device]
           /\ logs' = [logs EXCEPT ![i] = done.log]
           /\ pc' = IF done.raised THEN "raised" ELSE "done"
    /\ UNCHANGED <<discovered, aggregated_results, cfg, selected, pos, printed, rerun,
                   vsphere>>

\* The discovery runs the table has room for.
Discover(room) == \E ar \in AggregatedResults(room - Len(logs)) : discovery(ar)

Replay == \E c \in Cfgs : \E rows \in Ordered(QuerySet(logs, c)) : ReplayStart(c, rows)

\* Discovery, parsing and the replay script, each at any time.
Next ==
    \/ Discover(MaxRows)
    \/ \E i \in 1..Len(logs) : Parse(i)
    \/ Replay
    \/ ReplayStep

Spec == Init /\ [][Next]_vars

\* Discovery runs alone.
NextDiscovery == Discover(MaxLogs)

SpecDiscovery == Init /\ [][NextDiscovery]_vars

\* The replay script run over a table that discovery and parsing have filled and
\* that no other process changes after the first pass.
NextReplay ==
    \/ pc = "idle" /\ Discover(MaxRows)
    \/ pc = "idle" /\ \E i \in 1..Len(logs) : Parse(i)
    \/ Replay
    \/ ReplayStep

SpecReplay == Init /\ [][NextReplay]_vars

\* A Device as an earlier ingestion left it.
OldDevice == [serial |-> "OLD001", manufacturer |-> "Acme", model |-> "Old model"]

\* A parsed show-inventory log of a host, as discovery and the parse stage leave it.
InventoryLog(parsed_output, ingested) ==
    [discoverylog_create(1, "show inventory", "10.0.0.1",
                         JsonDumps(Returned(parsed_output)), "show inventory", 0)
        EXCEPT !.parsed = TRUE, !.parsed_output = parsed_output, !.ingested = ingested]

\* The settings that make the script take the one log of the table.
TakingCfgs(log) ==
    {c \in Cfgs : c.FILTERS = {} /\ c.LOGS = {} /\ c.COMMAND = ""
                  /\ (log.ingested => c.REINGEST)}

\* The table holds one parsed show-inventory log, of any output; the ingestor is
\* about to be called on it, by itself or by the script that has selected it.
InitIngest ==
    /\ discovered = [a \in Addresses |-> FALSE]
    /\ aggregated_results = <<>>
    /\ \E parsed_output \in ParsedOutputs : \E ingested \in BOOLEAN :
         logs = <<InventoryLog(parsed_output, ingested)>>
    /\ device \in [Addresses -> {EmptyDevice, OldDevice}]
    /\ device["10.0.0.2"] = EmptyDevice
    /\ before = [device |-> device, logs |-> logs]
    /\ pos = 0
    /\ printed = <<>>
    /\ rerun = FALSE
    /\ vsphere = EmptyVsphere
    /\ \/ pc = "idle" /\ cfg = ScriptCfg /\ selected = <<>>
       \/ pc = "running" /\ cfg \in TakingCfgs(logs[1]) /\ selected = logs

NextIngest ==
    \/ \E i \in 1..Len(logs) : Ingest(i)
    \/ ReplayStep

SpecIngest == InitIngest /\ [][NextIngest]_vars

\* A discovery run on one vSphere host, the query made against the vCenter content.
QueryRun(address) ==
    /\ logs = <<>>
    /\ discovery(nrni_run(address, vsphere))

\* Nothing discovered yet, and a vCenter of any content.
InitQuery ==
    /\ discovered = [a \in Addresses |-> FALSE]
    /\ device = NoDevices
    /\ logs = <<>>
    /\ aggregated_results = <<>>
    /\ pc = "idle"
    /\ cfg = ScriptCfg
    /\ selected = <<>>
    /\ pos = 0
    /\ printed = <<>>
    /\ before = [device |-> NoDevices, logs |-> <<>>]
    /\ rerun = FALSE
    /\ vsphere \in Vspheres

NextQuery == \E address \in Addresses : QueryRun(address)

SpecQuery == InitQuery /\ [][NextQuery]_vars

-----------------------------------------------------------------------------
(* Discovery: the claims *)

\* The results of the queries of a run, host after host: each MultiResult less the
\* wrapper's result at its head.
RECURSIVE QueriesOf(_)
QueriesOf(ar) ==
    IF ar = <<>> THEN <<>> ELSE Tail(Head(ar).multi_result) \o QueriesOf(Tail(ar))

QueriesOn(ar, host) ==
    {QueriesOf(ar)[k] : k \in {j \in 1..Len(QueriesOf(ar)) : QueriesOf(ar)[j].host = host}}

AllSucceeded(ar, host) ==
    QueriesOn(ar, host) # {} /\ \A q \in QueriesOn(ar, host) : ~q.failed

AllFailed(ar, host) ==
    QueriesOn(ar, host) # {} /\ \A q \in QueriesOn(ar, host) : q.failed

SomeFailed(ar, host) == \E q \in QueriesOn(ar, host) : q.failed

SomeSucceeded(ar, host) == \E q \in QueriesOn(ar, host) : ~q.failed

\* A step that is a discovery run: only a run adds rows.
RunStep == Len(logs') > Len(logs)

C2_OneLogPerQuery ==
    [][RunStep =>
        LET qs == QueriesOf(aggregated_results')
        IN  /\ Len(logs') = Len(logs) + Len(qs)
            /\ \A k \in 1..Len(logs) : logs'[k] = logs[k]
            /\ \A k \in 1..Len(qs) :
                 LET row == logs'[Len(logs) + k]
                 IN  /\ row.discoverable = qs[k].host
                     /\ DetailsDumps([command |-> row.command, template |-> row.template,
                                      order |-> row.order]) = qs[k].name
                     /\ row.raw_output = [json |-> qs[k].result]
                     /\ row.raw_output.json.traceback = qs[k].failed
                     /\ ~row.parsed]_vars

\* The table holds the row of a failed query and the row of one that succeeded.
C2_Witness ==
    /\ \E i \in 1..Len(logs) : logs[i].raw_output.json.traceback
    /\ \E i \in 1..Len(logs) : ~logs[i].raw_output.json.traceback
    /\ \E i \in 1..Len(aggregated_results) :
         aggregated_results[i].multi_result[1].name = "multiple_tasks"

\* The rows a run added for a host, in the order added.
AddedFor(old, new, host) ==
    SelectSeq(SubSeq(new, Len(old) + 1, Len(new)), LAMBDA row : row.discoverable = host)

\* C3: in a run where a query of host A fails, the rows added for another host B
\* are its own queries' payloads, one by one, and B is marked discovered when its
\* queries succeeded; the traceback is in A's rows only.
C3_HostIsolation ==
    [][RunStep =>
        \A A \in Addresses : \A B \in Addresses \ {A} :
            SomeFailed(aggregated_results', A) /\ QueriesOn(aggregated_results', B) # {} =>
                LET qs == SelectSeq(QueriesOf(aggregated_results'), LAMBDA q : q.host = B)
                    rows == AddedFor(logs, logs', B)
                IN  /\ Len(rows) = Len(qs)
                    /\ \A k \in 1..Len(qs) : rows[k].raw_output = [json |-> qs[k].result]
                    /\ AllSucceeded(aggregated_results', B) =>
                         /\ discovered'[B]
                         /\ \A k \in 1..Len(rows) : ~rows[k].raw_output.json.traceback]_vars

\* One run in which a host failed and the other, with its output logged, is discovered.
C3_Witness ==
    \E A \in Addresses : \E B \in Addresses \ {A} :
        /\ AllFailed(aggregated_results, A)
        /\ AllSucceeded(aggregated_results, B)
        /\ discovered[B] /\ ~discovered[A]
        /\ \E i \in 1..Len(logs) :
             logs[i].discoverable = B /\ ~logs[i].raw_output.json.traceback

\* C7, as stated: a run whose queries of a host all succeed makes the host discovered,
\* and a run whose queries of a discovered host all fail makes it not discovered.
C7_BothDirections ==
    [][RunStep =>
        \A h \in Addresses :
            /\ AllSucceeded(aggregated_results', h) => discovered'[h]
            /\ discovered[h] /\ AllFailed(aggregated_results', h) => ~discovered'[h]]_vars

\* C7, amended: a run whose queries of a host all succeed moves a host that is not
\* discovered to discovered; no run takes the discovered flag away, so a discovered
\* host whose queries all fail stays discovered.
C7_OnlyTowardsDiscovered ==
    [][\A h \in Addresses :
        /\ RunStep /\ ~discovered[h] /\ AllSucceeded(aggregated_results', h) => discovered'[h]
        /\ discovered[h] => discovered'[h]]_vars

\* A discovered host after a run in which all its queries failed.
C7_Witness ==
    \E h \in Addresses : discovered[h] /\ AllFailed(aggregated_results, h)

\* The rows of a table that a query of the host with these details left.
RowsOfQuery(table, host, details) ==
    {k \in 1..Len(table) :
        /\ table[k].discoverable = host
        /\ table[k].command = details.command
        /\ table[k].template = details.template
        /\ table[k].order = details.order}

\* C12: a discovery run adds one row per query and leaves every row the table had
\* as it was, at its place; so each run of a query against a host leaves one more
\* row of that query and host.
C12_AppendOnly ==
    [][LET qs == QueriesOf(aggregated_results')
       IN  /\ Len(logs') = Len(logs) + Len(qs)
           /\ \A k \in 1..Len(logs) : logs'[k] = logs[k]
           /\ \A h \in Addresses : \A d \in AllDetails :
                Cardinality(RowsOfQuery(logs', h, d))
                    = Cardinality(RowsOfQuery(logs, h, d))
                      + Cardinality({j \in 1..Len(qs) :
                            qs[j].host = h /\ qs[j].name = DetailsDumps(d)})]_vars

\* Three runs of one query against one host have left three rows, the first with
\* another output than the last.
C12_Witness ==
    \E h \in Addresses : \E d \in AllDetails :
        /\ Cardinality(RowsOfQuery(logs, h, d)) = 3
        /\ Len(QueriesOf(aggregated_results)) = 1
        /\ logs[1].raw_output # logs[3].raw_output

-----------------------------------------------------------------------------
(* The replay script: the claims *)

Ended == pc \in {"done", "raised"}

\* The ids of the rows the loop has taken so far, and of those it has not.
Taken == {selected[k].id : k \in 1..pos}

NotTaken == {selected[k].id : k \in (pos + 1)..Len(selected)}

\* The row of id i, when the pass started, passes every filter but the one on ingested.
Matches(i) ==
    /\ before.logs[i].parsed
    /\ cfg.FILTERS = {} \/ before.logs[i].discoverable \in cfg.FILTERS
    /\ cfg.LOGS = {} \/ i \in cfg.LOGS
    /\ cfg.COMMAND = "" \/ before.logs[i].command = cfg.COMMAND

\* C4: a pass without force re-ingest takes no log that was ingested when it started
\* and leaves its row as it was; the Device of a host whose parsed logs were all
\* ingested already is as it was.
C4_IngestedIsNoOp ==
    pc # "idle" /\ ~cfg.REINGEST =>
        /\ \A i \in 1..Len(before.logs) :
             before.logs[i].ingested =>
                 /\ \A k \in 1..Len(selected) : selected[k].id # i
                 /\ logs[i] = before.logs[i]
        /\ \A h \in Addresses :
             (\A i \in 1..Len(before.logs) :
                 before.logs[i].discoverable = h /\ before.logs[i].parsed
                     => before.logs[i].ingested)
             => device[h] = before.device[h]

\* A pass without force re-ingest has ended over a log that an earlier pass ingested
\* and that passes its other filters: the Device it wrote and the table are as they were.
C4_Witness ==
    /\ Ended /\ ~cfg.REINGEST /\ rerun
    /\ \E i \in 1..Len(before.logs) :
         /\ before.logs[i].ingested /\ Matches(i)
         /\ before.logs[i].command = "show inventory"
         /\ device[before.logs[i].discoverable].manufacturer = MANUFACTURER
    /\ device = before.device /\ logs = before.logs

\* C5, as stated: a pass run again with the same settings over the same logs ends
\* with the Devices and the log flags the pass before it ended with.
C5_ReplayConverges ==
    Ended /\ rerun => device = before.device /\ logs = before.logs

\* C6: a log that is ingested is parsed.
C6_IngestedImpliesParsed ==
    \A i \in 1..Len(logs) : logs[i].ingested => logs[i].parsed

\* An ingested log next to a log that is not parsed.
C6_Witness ==
    /\ \E i \in 1..Len(logs) : logs[i].ingested
    /\ \E i \in 1..Len(logs) : ~logs[i].parsed

\* C8: a log whose ingestion failed has the ingested flag it had, and no Device is
\* written by the failed turn; with STOP_ON_ERROR cleared the pass never raises and,
\* when it is done, has taken every selected log and has ingested each that it
\* printed "done" for.
C8_FailureLeavesLog ==
    pc # "idle" =>
        /\ \A k \in 1..Len(printed) :
             printed[k] = "failed" =>
                 /\ logs[selected[k].id].ingested = before.logs[selected[k].id].ingested
                 /\ logs[selected[k].id].parsed
        /\ ~cfg.STOP_ON_ERROR =>
             /\ pc # "raised"
             /\ pc = "done" =>
                  /\ Len(printed) = Len(selected)
                  /\ \A k \in 1..Len(selected) :
                       printed[k] = "done" => logs[selected[k].id].ingested

\* A pass that went on past a failure: the failed log is not ingested, the next is.
C8_Witness ==
    /\ pc = "done" /\ ~cfg.STOP_ON_ERROR /\ ~cfg.REINGEST
    /\ printed = <<"failed", "done">>
    /\ ~logs[selected[1].id].ingested
    /\ logs[selected[2].id].ingested

\* C9: the script as written stops on an error. With STOP_ON_ERROR set the first
\* failure is the last log taken and raises: the logs after it are as they were when
\* the pass started. With it cleared the pass ends done, at the end of the sequence.
C9_StopsOnFirstFailure ==
    /\ ScriptCfg.STOP_ON_ERROR
    /\ pc # "idle" =>
        /\ pos = Len(printed)
        /\ \A k \in 1..Len(printed) :
             printed[k] = "failed" /\ cfg.STOP_ON_ERROR => pc = "raised" /\ k = Len(printed)
        /\ pc = "raised" =>
             /\ cfg.STOP_ON_ERROR
             /\ printed[Len(printed)] = "failed"
             /\ \A i \in NotTaken : logs[i] = before.logs[i]
        /\ pc = "done" => pos = Len(selected)
        /\ pc = "running" => pos < Len(selected)

\* The pass raised on a log and a log after it was left alone, not ingested.
C9_Witness ==
    /\ pc = "raised"
    /\ NotTaken # {}
    /\ \A i \in NotTaken : ~logs[i].ingested /\ logs[i].parsed

\* C10: the logs the script takes are the parsed logs that pass every filter that is
\* set, and no others.
C10_SelectionIsFiltered ==
    pc # "idle" =>
        /\ {selected[k].id : k \in 1..Len(selected)}
             = {i \in 1..Len(before.logs) :
                    /\ before.logs[i].parsed
                    /\ cfg.FILTERS # {} => before.logs[i].discoverable \in cfg.FILTERS
                    /\ ~cfg.REINGEST => ~before.logs[i].ingested
                    /\ cfg.LOGS # {} => i \in cfg.LOGS
                    /\ cfg.COMMAND # "" => before.logs[i].command = cfg.COMMAND}
        /\ \A k \in 1..Len(selected) : selected[k] = before.logs[selected[k].id]
        /\ \A j, k \in 1..Len(selected) : j # k => selected[j].id # selected[k].id

\* Every filter is set and each keeps a parsed log out that the others let through.
C10_Witness ==
    /\ pc # "idle"
    /\ cfg.FILTERS # {} /\ cfg.LOGS # {} /\ cfg.COMMAND # "" /\ ~cfg.REINGEST
    /\ Len(selected) = 1
    /\ \E i \in 1..Len(before.logs) :
         before.logs[i].parsed /\ \A k \in 1..Len(selected) : selected[k].id # i

\* C11: within a pass the selected logs are taken by ascending order: the sequence the
\* loop walks is sorted by order, each turn takes the next log of it, and a log the
\* pass ingested has no larger order than any selected log taken after it or not yet
\* taken.
C11_AscendingOrder ==
    pc # "idle" =>
        /\ \A j, k \in 1..Len(selected) : j < k => selected[j].order <= selected[k].order
        /\ \A k \in 1..Len(printed) : \A j \in (k + 1)..Len(selected) :
             printed[k] = "done" => selected[k].order <= selected[j].order
        /\ \A i \in 1..Len(logs) :
             logs[i].ingested /\ ~before.logs[i].ingested => i \in Taken

\* A pass has ingested a log of order 0 and then a log of order 1.
C11_Witness ==
    /\ pc = "done"
    /\ printed = <<"done", "done">>
    /\ selected[1].order < selected[2].order
    /\ logs[selected[1].id].ingested /\ logs[selected[2].id].ingested

-----------------------------------------------------------------------------
(* The show-inventory ingestor: the claims *)

\* The log the ingestor is given and what it was given with it.
GivenOutput == before.logs[1].parsed_output

GivenDevice == before.device[before.logs[1].discoverable]

NowDevice == device[logs[1].discoverable]

\* The call failed: it raised, into the caller or into the script's except clause.
Failed == pc = "raised" \/ (pc = "done" /\ printed = <<"failed">>)

Succeeded == pc = "done" /\ printed # <<"failed">>

Named(item) == item.name # NoneVal

\* The names of Items that hold "chassis", in whatever case.
ChassisNames == {"Chassis", "CHASSIS 2"}

ChassisTagged(item) == item.name \in ChassisNames

HasChassis(parsed_output) == \E k \in 1..Len(parsed_output) : ChassisTagged(parsed_output[k])

\* The place of the first chassis-tagged record.
FirstChassis(parsed_output) ==
    CHOOSE k \in 1..Len(parsed_output) :
        /\ ChassisTagged(parsed_output[k])
        /\ \A j \in 1..(k - 1) : ~ChassisTagged(parsed_output[j])

\* What a Device field holds after an update that was given this value.
Updated(old, given) == IF given = NoneVal THEN old ELSE given

\* C13, as stated: whenever the output holds a chassis-tagged record, whatever the
\* other records, the call succeeds and the Device has the first such record's sn
\* and pid and the vendor constant, and the log is ingested.
C13_ChassisWhateverTheOthers ==
    Ended /\ HasChassis(GivenOutput) =>
        LET item == GivenOutput[FirstChassis(GivenOutput)]
        IN  /\ Succeeded
            /\ NowDevice.serial = item.sn
            /\ NowDevice.model = item.pid
            /\ NowDevice.manufacturer = MANUFACTURER
            /\ logs[1].ingested

\* C13, amended: when the output holds a chassis-tagged record and every record ahead
\* of the first such record has a name, the call succeeds, the Device is updated with
\* that record's sn as serial, its pid as model (a value the record lacks leaves the
\* field as it was) and the vendor constant as manufacturer, whatever the records
\* after it, and the log is ingested; when a record ahead of it has no name the call
\* fails and writes nothing.
C13_FirstChassisWins ==
    Ended /\ HasChassis(GivenOutput) =>
        LET k == FirstChassis(GivenOutput)
            item == GivenOutput[k]
        IN  IF \A j \in 1..(k - 1) : Named(GivenOutput[j])
            THEN /\ Succeeded
                 /\ NowDevice.serial = Updated(GivenDevice.serial, item.sn)
                 /\ NowDevice.model = Updated(GivenDevice.model, item.pid)
                 /\ NowDevice.manufacturer = MANUFACTURER
                 /\ logs[1].ingested
            ELSE /\ Failed
                 /\ device = before.device
                 /\ logs = before.logs

\* The spec's scenario with the chassis record last: two records that are not
\* chassis-tagged, then the chassis record, whose values the Device has got.
C13_Witness ==
    /\ Succeeded
    /\ Len(GivenOutput) = 3
    /\ ~ChassisTagged(GivenOutput[1]) /\ ~ChassisTagged(GivenOutput[2])
    /\ GivenOutput[3] = ChassisItem
    /\ GivenDevice = OldDevice
    /\ NowDevice = [serial |-> "ABC123", manufacturer |-> MANUFACTURER, model |-> "WS-C1"]
    /\ logs[1].ingested

\* A record with all of name, sn and pid present.
Complete(item) == Truthy(item.name) /\ Truthy(item.sn) /\ Truthy(item.pid)

\* The place of the first complete record.
FirstComplete(parsed_output) ==
    CHOOSE k \in 1..Len(parsed_output) :
        /\ Complete(parsed_output[k])
        /\ \A j \in 1..(k - 1) : ~Complete(parsed_output[j])

\* C14, as stated: when no record is chassis-tagged, the Device gets serial and model
\* of the first record, wherever in the sequence, that has all of name, sn and pid.
C14_FirstCompleteRecord ==
    /\ Ended
    /\ ~HasChassis(GivenOutput)
    /\ \E k \in 1..Len(GivenOutput) : Complete(GivenOutput[k])
    => /\ Succeeded
       /\ NowDevice.serial = GivenOutput[FirstComplete(GivenOutput)].sn
       /\ NowDevice.model = GivenOutput[FirstComplete(GivenOutput)].pid

\* C14, amended: when no record is chassis-tagged and every record has a name, the
\* call succeeds and only the record at the head of the sequence is looked at: if it
\* has all of name, sn and pid, the Device gets its sn and pid; if not, the model is
\* the default sentinel and the serial is left as it was, whatever the later records
\* hold. The manufacturer is the vendor constant and the log is ingested.
C14_FirstRecordOnly ==
    /\ Ended
    /\ ~HasChassis(GivenOutput)
    /\ GivenOutput # <<>>
    /\ \A k \in 1..Len(GivenOutput) : Named(GivenOutput[k])
    => /\ Succeeded
       /\ IF Complete(GivenOutput[1])
          THEN /\ NowDevice.serial = GivenOutput[1].sn
               /\ NowDevice.model = GivenOutput[1].pid
          ELSE /\ NowDevice.serial = GivenDevice.serial
               /\ NowDevice.model = DEFAULT_MODEL
       /\ NowDevice.manufacturer = MANUFACTURER
       /\ logs[1].ingested

\* No record is chassis-tagged and the first one is complete: the Device has got its
\* sn and pid in place of what it had.
C14_Witness ==
    /\ Succeeded
    /\ Len(GivenOutput) = 2
    /\ ~HasChassis(GivenOutput)
    /\ GivenOutput[1] = SlotItem
    /\ GivenDevice = OldDevice
    /\ NowDevice = [serial |-> "XYZ789", manufacturer |-> MANUFACTURER, model |-> "WS-X2"]

\* The record the ingestor takes its values from: the first chassis-tagged record,
\* or the record at the head when none is chassis-tagged.
SelectedRecord(parsed_output) ==
    IF HasChassis(parsed_output) THEN parsed_output[FirstChassis(parsed_output)]
    ELSE parsed_output[1]

\* C16, as stated: after an ingestion whose selected record gives no usable pid, a
\* chassis-tagged record without pid included, the Device's model is the default
\* sentinel, not null and not empty.
C16_SentinelWhenNoPid ==
    /\ Succeeded
    /\ ~Truthy(SelectedRecord(GivenOutput).pid)
    => /\ NowDevice.model = DEFAULT_MODEL
       /\ Truthy(NowDevice.model)

\* C18: a call on an empty output, or on an output with a record without a name that
\* no chassis-tagged record precedes, fails, by itself and under the script: no
\* Device is written and the log is as it was, its ingested flag included.
C18_FailsBeforeAnyWrite ==
    /\ Ended
    /\ \/ GivenOutput = <<>>
       \/ \E k \in 1..Len(GivenOutput) :
            /\ ~Named(GivenOutput[k])
            /\ \A j \in 1..(k - 1) : ~ChassisTagged(GivenOutput[j])
    => /\ Failed
       /\ device = before.device
       /\ logs = before.logs
       /\ logs[1].ingested = before.logs[1].ingested

\* The script raised on a log of empty output whose host had a Device: both are as
\* they were.
C18_Witness ==
    /\ pc = "raised"
    /\ printed = <<"failed">>
    /\ GivenOutput = <<>>
    /\ GivenDevice = OldDevice
    /\ NowDevice = OldDevice
    /\ ~logs[1].ingested

-----------------------------------------------------------------------------
(* api_query: the claims *)

\* The run logged data, not a traceback.
QueryReturned == logs # <<>> /\ ~logs[1].raw_output.json.traceback

\* The data api_query returned, as discovery logged it.
QueryData == logs[1].raw_output.json.data

\* The network adapters of a virtual machine of the vCenter, in the order of its hardware.
AdaptersOf(n, v) == SelectSeq(vsphere.hosts[n].vm[v].hardware, IsNetworkAdapter)

\* C15: every NIC record of the returned data stands for one network adapter and has
\* one backing: switch_type "dvswitch" with no portgroup_name and the port key of the
\* adapter's distributed port as port, when the adapter is backed by a distributed
\* port; switch_type "vswitch" with the network's name as portgroup_name and no port,
\* when it is not. No record has both a portgroup_name and a port.
C15_OneBackingPerNic ==
    QueryReturned =>
        \A n \in 1..Len(vsphere.hosts) : \A v \in 1..Len(vsphere.hosts[n].vm) :
            LET nics == QueryData.hosts[vsphere.hosts[n].id].vms[vsphere.hosts[n].vm[v].id].nics
                adapters == AdaptersOf(n, v)
            IN  /\ Len(nics) = Len(adapters)
                /\ \A i \in 1..Len(nics) :
                     /\ IF hasattr(adapters[i].backing, "port")
                        THEN /\ nics[i].switch_type = "dvswitch"
                             /\ nics[i].portgroup_name = NoneVal
                             /\ nics[i].port = adapters[i].backing.port.portKey
                             /\ nics[i].portgroup_id = adapters[i].backing.port.portgroupKey
                        ELSE /\ nics[i].switch_type = "vswitch"
                             /\ nics[i].portgroup_name = adapters[i].backing.deviceName
                             /\ nics[i].portgroup_name # NoneVal
                             /\ nics[i].port = NoneVal
                     /\ ~(nics[i].portgroup_name # NoneVal /\ nics[i].port # NoneVal)

\* A virtual machine with an adapter on a distributed port and one on a vswitch: the
\* first record has the port and no name, the second the name and no port.
C15_Witness ==
    /\ QueryReturned
    /\ \E n \in 1..Len(vsphere.hosts) : \E v \in 1..Len(vsphere.hosts[n].vm) :
         LET nics == QueryData.hosts[vsphere.hosts[n].id].vms[vsphere.hosts[n].vm[v].id].nics
         IN  /\ Len(nics) = 2
             /\ nics[1].switch_type = "dvswitch" /\ nics[1].port = "7"
             /\ nics[1].portgroup_name = NoneVal
             /\ nics[2].switch_type = "vswitch" /\ nics[2].portgroup_name = "VM Network"
             /\ nics[2].port = NoneVal

\* The keys of the port groups of the hosts' own vswitches.
HostPortgroupKeys == {pg.key : pg \in HostPortgroups}

\* C17, as stated: in the returned data the portgroups of each distributed switch
\* hold one entry per port group of that switch, under that port group's id and with
\* its id, name and vlan; none is the entry of a host's port group, and the entries
\* are as many as the switch's distinct port groups.
C17_DvswitchPortgroups ==
    QueryReturned =>
        \A n \in 1..Len(vsphere.dvswitches) :
            LET dvswitch == vsphere.dvswitches[n]
                own == {dvswitch.portgroup[i] : i \in 1..Len(dvswitch.portgroup)}
                portgroups == QueryData.dvswitches[dvswitch.id].portgroups
            IN  /\ DOMAIN portgroups = {pg.id : pg \in own}
                /\ DOMAIN portgroups \cap HostPortgroupKeys = {}
                /\ Cardinality(DOMAIN portgroups) = Cardinality(own)
                /\ \A pg \in own :
                     /\ portgroups[pg.id].id = pg.id
                     /\ portgroups[pg.id].name = pg.name
                     /\ portgroups[pg.id].vlan \in {NoneVal, pg.config_vlanId}

====
